---------------------------- MODULE Spec2Model ----------------------------
(***************************************************************************)
(* A model of the mechanisms of network-programming-with-go that work on  *)
(* a byte-stream connection:                                               *)
(*   - the TLV framing codec  (ch04-sending-tcp-data/types.go),            *)
(*   - the heartbeat task     (ch03-tcp-conn-go-stdlib/ping.go),           *)
(*   - the fan-out connector  (ch03-tcp-conn-go-stdlib/                    *)
(*                             dial_fanout_test.go),                       *)
(*   - the server that runs the heartbeat task on a connection with a     *)
(*     read deadline (TestPingerAdvanceDeadline).                          *)
(* Each mechanism has its own specification over its own variables; the   *)
(* variables of the other mechanisms stay at their initial values.         *)
(***************************************************************************)
EXTENDS Integers, Sequences, FiniteSets, TLC

VARIABLES
    \* ---- framing codec ----
    pcC,        \* position of the codec scenario: start, written, ready,
                \* decoded; or encoding, decoding with several values
    value,      \* the Binary handed to WriteTo (as Bin holds it)
    sinkCap,    \* number of bytes the io.Writer accepts before its Write fails
    sink,       \* bytes the io.Writer has accepted
    wn, werr,   \* WriteTo's results (int64, error)
    stream,     \* all bytes the io.Reader will ever deliver
    pos,        \* number of bytes of stream the io.Reader has handed out
    m,          \* the Binary that ReadFrom fills (receiver *m)
    made,       \* TRUE once ReadFrom executed make([]byte, size)
    rn, rerr,   \* ReadFrom's results (int64, error)
    sent,       \* the values encoded back to back into stream, in order
    got,        \* the successive ReadFrom calls on stream: where each
                \* started, its error and the Binary it left
    \* ---- heartbeat ----
    pc,         \* position of the Pinger goroutine
    ctxDone,    \* ctx.Done() is closed
    resetCh,    \* the buffered reset channel (capacity 1)
    interval,   \* Pinger's local variable interval
    newInterval,\* Pinger's local variable newInterval (reset case)
    timerOn,    \* the timer is active: it will fire when timerLeft reaches 0
    timerLeft,  \* time left until the active timer fires
    timerC,     \* number of values waiting in timer.C (0 or 1)
    syncTimer,  \* TRUE: Go >= 1.23 timer channel; FALSE: buffered timer channel
    acted,      \* select case the current/last loop iteration acted upon
    exit,       \* why Pinger left its loop: none, cancel, writeErr
    sinceReset, \* seconds since Pinger received from reset, while the reset is
                \* the last case it acted upon (time.Since(now) of a caller)
    startCanceled, \* whether ctx was already done when Pinger ran its first
                \* select
    \* ---- fan-out connector ----
    pcM,        \* position of the coordinator (the test function)
    reach,      \* identities whose dial the listener side lets succeed
    spawned,    \* number of attempts started by the loop of lines 161-163
    pcD,        \* position of every attempt (goroutine running dial)
    dialed,     \* identities whose DialContext returned a connection
    open,       \* identities whose connection is open
    fctx,       \* the shared context: active, canceled, deadline
    deadlinePassed, \* the deadline of the shared context has passed
    response,   \* the coordinator's variable response
    handoffs,   \* number of values that passed through the channel res
    wg,         \* counter of the sync.WaitGroup
    \* ---- server with heartbeat and deadline ----
    pcS,        \* position of the server goroutine
    now,        \* seconds since begin
    connDeadline, \* the deadline set on the server's conn (0: none)
    inbound,    \* messages of the client the server has not read yet
    pongAfter,  \* number of pings the client reads before it writes
    pingsSeen,  \* pings the client has read, counted up to pongAfter
    pongSent,   \* the client has written its message
    lastInbound,\* when the server last read data (-1: never)
    doneAt      \* when the server closed done (-1: not yet)

varsC == <<pcC, value, sinkCap, sink, wn, werr, stream, pos, m, made, rn, rerr,
           sent, got>>
varsP == <<pc, ctxDone, resetCh, interval, newInterval, timerOn, timerLeft,
           timerC, syncTimer, acted, exit, sinceReset, startCanceled>>
varsF == <<pcM, reach, spawned, pcD, dialed, open, fctx, deadlinePassed,
           response, handoffs, wg>>
varsS == <<pcS, now, connDeadline, inbound, pongAfter, pingsSeen, pongSent,
           lastInbound, doneAt>>
vars == <<varsC, varsP, varsF, varsS>>

Min(a, b) == IF a <= b THEN a ELSE b

(***************************************************************************)
(*                          FRAMING CODEC                                  *)
(***************************************************************************)

\* Bounds of the codec scenarios.
MaxLen == 3
MaxByte == 3

\* types.go:95-99
BinaryType == 1
StringType == 2
MaxPayloadSize == 10485760

ByteVals == 1..MaxByte

\* All byte strings of length at most n over ByteVals.
Seqs(n) == UNION {[1..i -> ByteVals] : i \in 0..n}

\* binary.BigEndian.PutUint32(uint32(v)): the conversion keeps the low 32 bits.
PutUint32LittleEndian(v) ==
    <<v % 256, (v \div 256) % 256, (v \div 65536) % 256, (v \div 16777216) % 256>>
PutUint32(v) ==
    <<(v \div 16777216) % 256, (v \div 65536) % 256, (v \div 256) % 256, v % 256>>

\* binary.BigEndian.Uint32(bs)
Uint32(bs) == bs[1] * 16777216 + bs[2] * 65536 + bs[3] * 256 + bs[4]

\* A Binary is held as its length and the bytes stored at its front; the
\* bytes behind them are the zeros make() left there.  A declared length up
\* to MaxPayloadSize is then a number, not ten million sequence elements.
Bin(bs) == [size |-> Len(bs), data |-> bs]
Bytes(b) == [i \in 1..b.size |-> IF i <= Len(b.data) THEN b.data[i] ELSE 0]

\* b[:k], for k <= len(b)
Front(b, k) == [i \in 1..k |-> IF i <= Len(b.data) THEN b.data[i] ELSE 0]

\* make([]byte, n)
Make(n) == [size |-> n, data |-> <<>>]

\* io.Writer.Write(p) on a sink that fails once it has accepted cap bytes;
\* p is held as Bin holds a byte slice.
WriterWrite(snk, cap, p) ==
    LET room == IF cap > Len(snk) THEN cap - Len(snk) ELSE 0
        k == Min(p.size, room)
    IN [sink |-> snk \o Front(p, k),
        n |-> k,
        err |-> IF k < p.size THEN "ErrShortWrite" ELSE "nil"]

\* binary.Write(w, binary.BigEndian, data): one w.Write of the encoded bytes,
\* whose byte count is dropped.
BinaryWrite(snk, cap, bs) ==
    LET r == WriterWrite(snk, cap, Bin(bs))
    IN [sink |-> r.sink, err |-> r.err]

\* Binary.WriteTo
WriteToInOneWrite(b, snk, cap) ==
    LET r == WriterWrite(snk, cap,
                         Bin(<<BinaryType>> \o PutUint32(b.size) \o b.data))
    IN [n |-> r.n, err |-> r.err, sink |-> r.sink]
WriteTo(b, snk, cap) ==
    LET r1 == BinaryWrite(snk, cap, <<BinaryType>>)
    IN IF r1.err # "nil"
       THEN [n |-> 0, err |-> r1.err, sink |-> r1.sink]
       ELSE
         LET r2 == BinaryWrite(r1.sink, cap, PutUint32(b.size))
         IN IF r2.err # "nil"
            THEN [n |-> 1, err |-> r2.err, sink |-> r2.sink]
            ELSE
              LET r3 == WriterWrite(r2.sink, cap, b)
              IN [n |-> 1 + 4 + r3.n, err |-> r3.err, sink |-> r3.sink]

\* io.ReadFull(r, buf) with len(buf) = len, on a reader with rem left: it
\* calls Read until len bytes are in or the reader reports end of stream.
ReadFull(rem, len) ==
    LET k == Min(len, Len(rem))
    IN [bytes |-> SubSeq(rem, 1, k),
        n |-> k,
        err |-> IF k = len THEN "nil"
                ELSE IF k = 0 THEN "EOF" ELSE "ErrUnexpectedEOF"]

\* One io.Reader.Read(p) with len(p) = len.  The reader hands out between
\* one and len of the bytes it has (k is its choice); with nothing left it
\* reports EOF; for len(p) = 0 readers differ at end of stream (bytes.Buffer
\* and net.Conn give nil, bytes.Reader gives EOF): zeof is that choice.
ReaderRead(rem, len, k, zeof) ==
    IF len = 0
    THEN [bytes |-> <<>>, n |-> 0,
          err |-> IF rem = <<>> /\ zeof THEN "EOF" ELSE "nil"]
    ELSE IF rem = <<>>
    THEN [bytes |-> <<>>, n |-> 0, err |-> "EOF"]
    ELSE LET c == Min(Min(IF k < 1 THEN 1 ELSE k, len), Len(rem))
         IN [bytes |-> SubSeq(rem, 1, c), n |-> c, err |-> "nil"]

\* typ != BinaryType
AnyKnownType(typ) == typ \notin {BinaryType, StringType}
InvalidType(typ) == typ # BinaryType

\* size > MaxPayloadSize
NeverExceeds(size) == FALSE
ExceedsMax(size) == size > MaxPayloadSize

\* A ReadFrom that empties the receiver before it looks at the header.
ReadFromClearingFirst(cur, rem, k, zeof) ==
    LET h == ReadFull(rem, 1)
    IN [n |-> 0, err |-> IF h.err = "nil" THEN "invalid Binary" ELSE h.err,
        m |-> Bin(<<>>), made |-> FALSE, used |-> h.n]

\* Binary.ReadFrom on receiver cur, with rem left in the reader.  used is
\* the number of bytes taken from the reader.
ReadFromCountingHeader(cur, rem, k, zeof) ==
    LET h == ReadFull(rem, 5)
    IN [n |-> h.n, err |-> IF h.err = "nil" THEN "invalid Binary" ELSE h.err,
        m |-> cur, made |-> FALSE, used |-> h.n]
ReadFrom(cur, rem, k, zeof) ==
    LET h1 == ReadFull(rem, 1)
    IN IF h1.err # "nil"
       THEN [n |-> 0, err |-> h1.err, m |-> cur, made |-> FALSE, used |-> h1.n]
       ELSE IF InvalidType(h1.bytes[1])
       THEN [n |-> 1, err |-> "invalid Binary", m |-> cur, made |-> FALSE,
             used |-> 1]
       ELSE
         LET rem2 == Tail(rem)
             h2 == ReadFull(rem2, 4)
         IN IF h2.err # "nil"
            THEN [n |-> 1, err |-> h2.err, m |-> cur, made |-> FALSE,
                  used |-> 1 + h2.n]
            ELSE
              LET size == Uint32(h2.bytes)
                  rem3 == SubSeq(rem2, 5, Len(rem2))
              IN IF ExceedsMax(size)
                 THEN [n |-> 1 + 4, err |-> "ErrMaxPayloadSize", m |-> cur,
                       made |-> FALSE, used |-> 5]
                 ELSE
                   LET r == ReaderRead(rem3, size, k, zeof)
                   IN [n |-> 1 + 4 + r.n, err |-> r.err,
                       m |-> [size |-> size, data |-> r.bytes],
                       made |-> TRUE, used |-> 5 + r.n]

\* The values an application encodes: short ones, and zero-filled ones at
\* and just above the size limit.
Values == Seqs(MaxLen)
LargeValues == {Make(MaxPayloadSize), Make(MaxPayloadSize + 1)}

\* ---- the streams a peer can send ----
LenWords == {PutUint32(n) : n \in 0..MaxLen}
              \cup {PutUint32(MaxPayloadSize), PutUint32(MaxPayloadSize + 1),
                    <<127, 255, 255, 255>>}
Frames == {<<t>> \o w \o p : t \in {0, BinaryType, StringType}, w \in LenWords,
                             p \in Values}
Streams == {SubSeq(f, 1, Min(j, Len(f))) : f \in Frames, j \in 0..(5 + MaxLen)}

\* Receivers ReadFrom is called on: a fresh Binary, or one holding a value.
Receivers == {Bin(<<>>), Bin(<<MaxByte>>)}

InitC ==
    /\ pcC = "start"
    /\ value = Bin(<<>>)
    /\ sinkCap = 0
    /\ sink = <<>>
    /\ wn = 0
    /\ werr = "none"
    /\ stream = <<>>
    /\ pos = 0
    /\ m \in Receivers
    /\ made = FALSE
    /\ rn = 0
    /\ rerr = "none"
    /\ sent = <<>>
    /\ got = <<>>

\* The application encodes b into a sink that accepts cap bytes.
Encode(b, cap) ==
    /\ UNCHANGED <<varsP, varsF, varsS>>
    /\ pcC = "start"
    /\ LET r == WriteTo(b, <<>>, cap)
       IN /\ sink' = r.sink
          /\ wn' = r.n
          /\ werr' = r.err
    /\ value' = b
    /\ sinkCap' = cap
    /\ pcC' = "written"
    /\ UNCHANGED <<stream, pos, m, made, rn, rerr, sent, got>>

\* What the sink accepted is what the reader at the other end will deliver.
Transmit ==
    /\ UNCHANGED <<varsP, varsF, varsS>>
    /\ pcC = "written"
    /\ stream' = sink
    /\ pcC' = "ready"
    /\ UNCHANGED <<value, sinkCap, sink, wn, werr, pos, m, made, rn, rerr>>
    /\ UNCHANGED <<sent, got>>

\* A peer sends bytes of its own making.
Arrive(s) ==
    /\ UNCHANGED <<varsP, varsF, varsS>>
    /\ pcC = "start"
    /\ stream' = s
    /\ pcC' = "ready"
    /\ UNCHANGED <<value, sinkCap, sink, wn, werr, pos, m, made, rn, rerr>>
    /\ UNCHANGED <<sent, got>>

\* The application decodes from the reader.
Decode(k, zeof) ==
    /\ UNCHANGED <<varsP, varsF, varsS>>
    /\ pcC = "ready"
    /\ LET r == ReadFrom(m, SubSeq(stream, pos + 1, Len(stream)), k, zeof)
       IN /\ rn' = r.n
          /\ rerr' = r.err
          /\ m' = r.m
          /\ made' = r.made
          /\ pos' = pos + r.used
    /\ pcC' = "decoded"
    /\ UNCHANGED <<value, sinkCap, sink, wn, werr, stream, sent, got>>

\* The inputs are only enumerated where the action they feed can be taken.
NextC ==
    \/ pcC = "start" /\ \E b \in Values, cap \in 0..(5 + MaxLen) :
                          Encode(Bin(b), cap)
    \/ pcC = "start" /\ \E b \in LargeValues, cap \in 0..(5 + MaxLen) :
                          Encode(b, cap)
    \/ Transmit
    \/ pcC = "start" /\ \E s \in Streams : Arrive(s)
    \/ pcC = "ready" /\ \E k \in 1..MaxLen, zeof \in BOOLEAN : Decode(k, zeof)

\* Most messages one connection carries.
MaxMsgs == 2

\* The values sent back to back: the shorter ones whose bytes either look
\* like the Binary tag or do not.
FramedValues ==
    {b \in Values :
        Len(b) < MaxLen /\ \A i \in 1..Len(b) : b[i] \in {BinaryType, MaxByte}}

\* The application encodes one more value straight into the connection,
\* which takes every byte.
EncodeNext(b) ==
    /\ UNCHANGED <<varsP, varsF, varsS>>
    /\ pcC \in {"start", "encoding"}
    /\ Len(sent) < MaxMsgs
    /\ LET r == WriteTo(Bin(b), stream, Len(stream) + 5 + Len(b))
       IN /\ stream' = r.sink
          /\ wn' = r.n
          /\ werr' = r.err
    /\ value' = Bin(b)
    /\ sent' = Append(sent, b)
    /\ pcC' = "encoding"
    /\ UNCHANGED <<sinkCap, sink, pos, m, made, rn, rerr, got>>

\* The peer decodes the next value from where its last ReadFrom stopped.
DecodeNext(k, zeof) ==
    /\ UNCHANGED <<varsP, varsF, varsS>>
    /\ pcC \in {"encoding", "decoding"}
    /\ Len(got) < Len(sent)
    /\ LET r == ReadFrom(m, SubSeq(stream, pos + 1, Len(stream)), k, zeof)
       IN /\ rn' = r.n
          /\ rerr' = r.err
          /\ m' = r.m
          /\ made' = r.made
          /\ pos' = pos + r.used
          /\ got' = Append(got, [at |-> pos, err |-> r.err, m |-> r.m])
    /\ pcC' = "decoding"
    /\ UNCHANGED <<value, sinkCap, sink, wn, werr, stream, sent>>

NextFr ==
    \/ pcC \in {"start", "encoding"} /\ \E b \in FramedValues : EncodeNext(b)
    \/ pcC \in {"encoding", "decoding"} /\
           \E k \in 1..MaxLen, zeof \in BOOLEAN : DecodeNext(k, zeof)

(***************************************************************************)
(*                             HEARTBEAT                                   *)
(***************************************************************************)

\* ping.go:63, in seconds
defaultPingInterval == 30

\* Largest duration (in seconds) a caller puts on the reset channel.
MaxReset == 2
ResetValues == (-1)..MaxReset

\* time.NewTimer(d)
NewTimer(d) == [on |-> TRUE, left |-> d, c |-> 0]

\* timer.Stop(): reports whether the call stopped the timer.  With the
\* buffered channel (before Go 1.23) a fire that was not received stays in
\* timer.C and Stop reports false; with the Go 1.23 channel Stop discards it
\* and reports true.  After a fire that was received Stop reports false.
TimerStopKeepsFire(on, c, sync) == [ret |-> TRUE, on |-> FALSE, c |-> c]
TimerStopLosesFire(on, c, sync) == [ret |-> FALSE, on |-> FALSE, c |-> 0]
TimerStop(on, c, sync) ==
    [ret |-> on \/ (sync /\ c = 1), on |-> FALSE, c |-> IF sync THEN 0 ELSE c]

\* timer.Reset(d)
TimerResetIdle(d, c, sync) == [on |-> FALSE, left |-> d, c |-> c]
TimerReset(d, c, sync) == [on |-> TRUE, left |-> d, c |-> IF sync THEN 0 ELSE c]

\* if interval <= 0 { interval = defaultPingInterval }
InitialIntervalAsGiven(v) == v
InitialInterval(v) == IF v <= 0 THEN defaultPingInterval ELSE v

\* <-reset: what stays on the channel once its first value is received
ChanPeek(ch) == ch
ChanRecv(ch) == Tail(ch)

\* if !timer.Stop() { <-timer.C }: where the reset case goes on after Stop
AfterStopWrites(stopped) == "write"
AfterStop(stopped) == IF stopped THEN "rearm" ELSE "drain"

\* if newInterval > 0 { interval = newInterval }
AdoptAnyInterval(cur, v) == v
AdoptInterval(cur, v) == IF v > 0 THEN v ELSE cur

InitP ==
    /\ pc = "start"
    /\ ctxDone = FALSE
    /\ resetCh = <<>>
    /\ interval = 0
    /\ newInterval = 0
    /\ timerOn = FALSE
    /\ timerLeft = 0
    /\ timerC = 0
    /\ syncTimer \in BOOLEAN
    /\ acted = "none"
    /\ exit = "none"
    /\ sinceReset = 0
    /\ startCanceled = FALSE

\* ---- Pinger, first select (lines 77-82), then lines 85-104 ----
StartCancel ==
    /\ UNCHANGED <<varsC, varsF, varsS, sinceReset>>
    /\ startCanceled' = ctxDone
    /\ pc = "start"
    /\ ctxDone
    /\ pc' = "closed"
    /\ exit' = "cancel"
    /\ UNCHANGED <<ctxDone, resetCh, interval, newInterval, timerOn, timerLeft,
                   timerC, syncTimer, acted>>

StartRecv ==
    /\ UNCHANGED <<varsC, varsF, varsS, sinceReset>>
    /\ startCanceled' = ctxDone
    /\ pc = "start"
    /\ resetCh # <<>>
    /\ resetCh' = ChanRecv(resetCh)
    /\ interval' = InitialInterval(Head(resetCh))
    /\ LET t == NewTimer(interval')
       IN /\ timerOn' = t.on
          /\ timerLeft' = t.left
          /\ timerC' = t.c
    /\ pc' = "select"
    /\ UNCHANGED <<ctxDone, newInterval, syncTimer, acted, exit>>

StartDefault ==
    /\ UNCHANGED <<varsC, varsF, varsS, sinceReset>>
    /\ startCanceled' = ctxDone
    /\ pc = "start"
    /\ ~ctxDone
    /\ resetCh = <<>>
    /\ interval' = InitialInterval(interval)
    /\ LET t == NewTimer(interval')
       IN /\ timerOn' = t.on
          /\ timerLeft' = t.left
          /\ timerC' = t.c
    /\ pc' = "select"
    /\ UNCHANGED <<ctxDone, resetCh, newInterval, syncTimer, acted, exit>>

\* ---- Pinger, the select of the loop (lines 124-140) ----
\* case <-ctx.Done(): return
SelectCancel ==
    /\ UNCHANGED <<varsC, varsF, varsS>>
    /\ sinceReset' = 0
    /\ UNCHANGED startCanceled
    /\ pc = "select"
    /\ ctxDone
    /\ acted' = "cancel"
    /\ exit' = "cancel"
    /\ pc' = "defer"
    /\ UNCHANGED <<ctxDone, resetCh, interval, newInterval, timerOn, timerLeft,
                   timerC, syncTimer>>

\* case newInterval := <-reset: timer.Stop(); when Stop reports true the
\* assignment of lines 131-133 follows at once.
SelectReset ==
    /\ UNCHANGED <<varsC, varsF, varsS>>
    /\ sinceReset' = 0
    /\ UNCHANGED startCanceled
    /\ pc = "select"
    /\ resetCh # <<>>
    /\ resetCh' = ChanRecv(resetCh)
    /\ newInterval' = Head(resetCh)
    /\ acted' = "reset"
    /\ LET s == TimerStop(timerOn, timerC, syncTimer)
       IN /\ timerOn' = s.on
          /\ timerC' = s.c
          /\ timerLeft' = 0
          /\ interval' = IF s.ret THEN AdoptInterval(interval, newInterval')
                                  ELSE interval
          /\ pc' = AfterStop(s.ret)
    /\ UNCHANGED <<ctxDone, syncTimer, exit>>

\* <-timer.C of line 129, then lines 131-133
Drain ==
    /\ UNCHANGED <<varsC, varsF, varsS, sinceReset, startCanceled>>
    /\ pc = "drain"
    /\ timerC = 1
    /\ timerC' = 0
    /\ interval' = AdoptInterval(interval, newInterval)
    /\ pc' = "rearm"
    /\ UNCHANGED <<ctxDone, resetCh, newInterval, timerOn, timerLeft, syncTimer,
                   acted, exit>>

\* case <-timer.C: the call of w.Write([]byte("ping")) begins
SelectTimer ==
    /\ UNCHANGED <<varsC, varsF, varsS>>
    /\ sinceReset' = 0
    /\ UNCHANGED startCanceled
    /\ pc = "select"
    /\ timerC = 1
    /\ timerC' = 0
    /\ acted' = "fire"
    /\ pc' = "write"
    /\ UNCHANGED <<ctxDone, resetCh, interval, newInterval, timerOn, timerLeft,
                   syncTimer, exit>>

\* timer.Reset(interval), line 145
Rearm ==
    /\ UNCHANGED <<varsC, varsF, varsS, sinceReset, startCanceled>>
    /\ pc = "rearm"
    /\ LET t == TimerReset(interval, timerC, syncTimer)
       IN /\ timerOn' = t.on
          /\ timerLeft' = t.left
          /\ timerC' = t.c
    /\ pc' = "select"
    /\ UNCHANGED <<ctxDone, resetCh, interval, newInterval, syncTimer, acted,
                   exit>>

\* ---- Pinger, the deferred function (lines 100-104) ----
DeferStop ==
    /\ UNCHANGED <<varsC, varsF, varsS, sinceReset, startCanceled>>
    /\ pc = "defer"
    /\ LET s == TimerStop(timerOn, timerC, syncTimer)
       IN /\ timerOn' = s.on
          /\ timerC' = s.c
          /\ timerLeft' = 0
          /\ pc' = IF s.ret THEN "closed" ELSE "deferDrain"
    /\ UNCHANGED <<ctxDone, resetCh, interval, newInterval, syncTimer, acted,
                   exit>>

DeferDrain ==
    /\ UNCHANGED <<varsC, varsF, varsS, sinceReset, startCanceled>>
    /\ pc = "deferDrain"
    /\ timerC = 1
    /\ timerC' = 0
    /\ pc' = "closed"
    /\ UNCHANGED <<ctxDone, resetCh, interval, newInterval, timerOn, timerLeft,
                   syncTimer, acted, exit>>

\* ---- the writer w ----
\* w.Write returns nil: the bytes were accepted (a pipe: the reader took them)
WriteOK ==
    /\ UNCHANGED <<varsC, varsF, varsS, sinceReset, startCanceled>>
    /\ pc = "write"
    /\ pc' = "rearm"
    /\ UNCHANGED <<ctxDone, resetCh, interval, newInterval, timerOn, timerLeft,
                   timerC, syncTimer, acted, exit>>

\* w.Write returns an error: return (line 138)
WriteFail ==
    /\ UNCHANGED <<varsC, varsF, varsS, sinceReset, startCanceled>>
    /\ pc = "write"
    /\ exit' = "writeErr"
    /\ pc' = "defer"
    /\ UNCHANGED <<ctxDone, resetCh, interval, newInterval, timerOn, timerLeft,
                   timerC, syncTimer, acted>>

\* ---- the callers of Pinger and the runtime ----
\* cancel()
Cancel ==
    /\ UNCHANGED <<varsC, varsF, varsS, sinceReset, startCanceled>>
    /\ ~ctxDone
    /\ ctxDone' = TRUE
    /\ UNCHANGED <<pc, resetCh, interval, newInterval, timerOn, timerLeft,
                   timerC, syncTimer, acted, exit>>

\* resetTimer <- v: blocks while the channel holds a value
SendReset(v) ==
    /\ UNCHANGED <<varsC, varsF, varsS, sinceReset, startCanceled>>
    /\ Len(resetCh) < 1
    /\ resetCh' = Append(resetCh, v)
    /\ UNCHANGED <<pc, ctxDone, interval, newInterval, timerOn, timerLeft,
                   timerC, syncTimer, acted, exit>>

\* One second passes.  An active timer does not run past its expiry; the time
\* since the reset is counted up to the longest interval.
Tick ==
    /\ UNCHANGED <<varsC, varsF, varsS>>
    /\ timerOn => timerLeft > 0
    /\ timerLeft' = IF timerOn THEN timerLeft - 1 ELSE timerLeft
    /\ sinceReset' = IF acted = "reset" /\ sinceReset < defaultPingInterval
                     THEN sinceReset + 1 ELSE sinceReset
    /\ UNCHANGED startCanceled
    /\ UNCHANGED <<pc, ctxDone, resetCh, interval, newInterval, timerOn, timerC,
                   syncTimer, acted, exit>>

\* The runtime delivers the expiry of the timer on timer.C.
TimerFire ==
    /\ UNCHANGED <<varsC, varsF, varsS, sinceReset, startCanceled>>
    /\ timerOn
    /\ timerLeft = 0
    /\ timerOn' = FALSE
    /\ timerC' = 1
    /\ UNCHANGED <<pc, ctxDone, resetCh, interval, newInterval, timerLeft,
                   syncTimer, acted, exit>>

PingerStep ==
    \/ StartCancel \/ StartRecv \/ StartDefault
    \/ SelectCancel \/ SelectReset \/ SelectTimer
    \/ Drain \/ Rearm \/ DeferStop \/ DeferDrain

NextP ==
    \/ StartCancel
    \/ StartRecv
    \/ StartDefault
    \/ SelectCancel
    \/ SelectReset
    \/ SelectTimer
    \/ Drain
    \/ Rearm
    \/ DeferStop
    \/ DeferDrain
    \/ WriteOK
    \/ WriteFail
    \/ Cancel
    \/ \E v \in ResetValues : SendReset(v)
    \/ Tick
    \/ TimerFire

(***************************************************************************)
(*                         FAN-OUT CONNECTOR                               *)
(***************************************************************************)

\* Number of attempts the coordinator starts (the source starts 10).
NumDialers == 3
Dialers == 1..NumDialers

\* <-ctx.Done() is ready (coordinator, line 204)
ScopeAlwaysDone(c) == TRUE
ScopeDone(c) == c # "active"

\* <-ctx.Done() is ready (attempt, line 145)
HandoffNeverAbandoned(c) == FALSE
HandoffAbandoned(c) == c # "active"

\* res is unbuffered (line 152): the send of a select that is being run can
\* proceed only to a receiver that is blocked receiving from res, which the
\* coordinator is when it is parked in its select and nowhere else.
ReceiverAlways(pcm) == TRUE
ReceiverWaiting(pcm) == pcm = "parked"

\* The receive of the coordinator's select can proceed from an attempt that
\* is blocked in its select with the send on res.
SenderWaiting(pd) == pd = "parked"

\* wg.Wait() returns (line 211)
WaitDoneAlways(w) == TRUE
WaitDone(w) == w = 0

\* cancel(): the first end of the context stays
CancelCtxAlways(c) == "canceled"
CancelCtx(c) == IF c = "active" THEN "canceled" ELSE c

\* the deadline passes: the first end of the context stays
ExpireCtx(c) == IF c = "active" THEN "deadline" ELSE c

\* Closing ctx.Done() releases every attempt blocked in its select; the
\* released select has taken its <-ctx.Done() case.
WakeNone(pd) == pd
Wake(pd) == [i \in Dialers |-> IF pd[i] = "parked" THEN "woken" ELSE pd[i]]

\* ... and the coordinator, when it is blocked in its select.
WakeCoord(pcm) == IF pcm = "parked" THEN "woken" ELSE pcm

\* c, err := d.DialContext(...); if err != nil { return }: where the attempt
\* goes on after the dial
AfterDialIgnoringError(ok) == "close"
AfterDial(ok) == IF ok THEN "close" ELSE "done"

\* _ = c.Close() (line 142)
ConnStaysOpen(o, i) == o
ConnClose(o, i) == o \ {i}

InitF ==
    /\ pcM = "listen"
    /\ reach = {}
    /\ spawned = 0
    /\ pcD = [i \in Dialers |-> "idle"]
    /\ dialed = {}
    /\ open = {}
    /\ fctx = "active"
    /\ deadlinePassed = FALSE
    /\ response = 0
    /\ handoffs = 0
    /\ wg = 0

\* context.WithDeadline, net.Listen and the accepting side (lines 70-100; in
\* the second subtest the listener is closed at once): R is the set of
\* attempts the listening side lets connect.
Listen(R) ==
    /\ UNCHANGED <<varsC, varsP, varsS>>
    /\ pcM = "listen"
    /\ reach' = R
    /\ pcM' = "spawn"
    /\ UNCHANGED <<spawned, pcD, dialed, open, fctx, deadlinePassed, response,
                   handoffs, wg>>

\* one iteration of the loop: wg.Go(func() { dial(ctx, addr, res, i+1) })
Spawn ==
    /\ UNCHANGED <<varsC, varsP, varsS>>
    /\ pcM = "spawn"
    /\ spawned < NumDialers
    /\ spawned' = spawned + 1
    /\ wg' = wg + 1
    /\ pcD' = [pcD EXCEPT ![spawned + 1] = "dial"]
    /\ UNCHANGED <<pcM, reach, dialed, open, fctx, deadlinePassed, response,
                   handoffs>>

\* the loop ends; the coordinator enters its select
SpawnDone ==
    /\ UNCHANGED <<varsC, varsP, varsS>>
    /\ pcM = "spawn"
    /\ spawned = NumDialers
    /\ pcM' = "select"
    /\ UNCHANGED <<reach, spawned, pcD, dialed, open, fctx, deadlinePassed,
                   response, handoffs, wg>>

\* d.DialContext returns a connection
DialOK(i) ==
    /\ UNCHANGED <<varsC, varsP, varsS>>
    /\ pcD[i] = "dial"
    /\ i \in reach
    /\ fctx = "active"
    /\ dialed' = dialed \cup {i}
    /\ open' = open \cup {i}
    /\ pcD' = [pcD EXCEPT ![i] = AfterDial(TRUE)]
    /\ UNCHANGED <<pcM, reach, spawned, fctx, deadlinePassed, response,
                   handoffs, wg>>

\* d.DialContext returns an error (refused, or the context ended): return
DialFail(i) ==
    /\ UNCHANGED <<varsC, varsP, varsS>>
    /\ pcD[i] = "dial"
    /\ i \notin reach \/ fctx # "active"
    /\ pcD' = [pcD EXCEPT ![i] = AfterDial(FALSE)]
    /\ wg' = IF AfterDial(FALSE) = "done" THEN wg - 1 ELSE wg
    /\ UNCHANGED <<pcM, reach, spawned, dialed, open, fctx, deadlinePassed,
                   response, handoffs>>

\* _ = c.Close(), before the attempt tries to publish
CloseConn(i) ==
    /\ UNCHANGED <<varsC, varsP, varsS>>
    /\ pcD[i] = "close"
    /\ open' = ConnClose(open, i)
    /\ pcD' = [pcD EXCEPT ![i] = "publish"]
    /\ UNCHANGED <<pcM, reach, spawned, dialed, fctx, deadlinePassed, response,
                   handoffs, wg>>

\* select of the attempt, case <-ctx.Done(): taken when the select is run
\* with Done closed, or when the close of Done released the blocked select
PublishSkip(i) ==
    /\ UNCHANGED <<varsC, varsP, varsS>>
    /\ pcD[i] \in {"publish", "woken"}
    /\ HandoffAbandoned(fctx)
    /\ pcD' = [pcD EXCEPT ![i] = "done"]
    /\ wg' = wg - 1
    /\ UNCHANGED <<pcM, reach, spawned, dialed, open, fctx, deadlinePassed,
                   response, handoffs>>

\* select of the attempt, case response <- id, run while the coordinator is
\* blocked in its select: the coordinator's case response = <-res completes
Publish(i) ==
    /\ UNCHANGED <<varsC, varsP, varsS>>
    /\ pcD[i] = "publish"
    /\ ReceiverWaiting(pcM)
    /\ response' = i
    /\ handoffs' = handoffs + 1
    /\ pcM' = "cancel"
    /\ pcD' = [pcD EXCEPT ![i] = "done"]
    /\ wg' = wg - 1
    /\ UNCHANGED <<reach, spawned, dialed, open, fctx, deadlinePassed>>

\* select of the attempt with no case ready: the attempt blocks
Park(i) ==
    /\ UNCHANGED <<varsC, varsP, varsS>>
    /\ pcD[i] = "publish"
    /\ ~HandoffAbandoned(fctx)
    /\ ~ReceiverWaiting(pcM)
    /\ pcD' = [pcD EXCEPT ![i] = "parked"]
    /\ UNCHANGED <<pcM, reach, spawned, dialed, open, fctx, deadlinePassed,
                   response, handoffs, wg>>

\* select of the coordinator, case <-ctx.Done()
CoordCtxDone ==
    /\ UNCHANGED <<varsC, varsP, varsS>>
    /\ pcM \in {"select", "woken"}
    /\ ScopeDone(fctx)
    /\ pcM' = "wait"
    /\ UNCHANGED <<reach, spawned, pcD, dialed, open, fctx, deadlinePassed,
                   response, handoffs, wg>>

\* select of the coordinator, case response = <-res, run while attempt i is
\* blocked in its select: the attempt's case response <- id completes
Receive(i) ==
    /\ UNCHANGED <<varsC, varsP, varsS>>
    /\ pcM = "select"
    /\ SenderWaiting(pcD[i])
    /\ response' = i
    /\ handoffs' = handoffs + 1
    /\ pcM' = "cancel"
    /\ pcD' = [pcD EXCEPT ![i] = "done"]
    /\ wg' = wg - 1
    /\ UNCHANGED <<reach, spawned, dialed, open, fctx, deadlinePassed>>

\* select of the coordinator with no case ready: the coordinator blocks
CoordPark ==
    /\ UNCHANGED <<varsC, varsP, varsS>>
    /\ pcM = "select"
    /\ ~ScopeDone(fctx)
    /\ \A i \in Dialers : ~SenderWaiting(pcD[i])
    /\ pcM' = "parked"
    /\ UNCHANGED <<reach, spawned, pcD, dialed, open, fctx, deadlinePassed,
                   response, handoffs, wg>>

\* cancel() of line 206
CoordCancel ==
    /\ UNCHANGED <<varsC, varsP, varsS>>
    /\ pcM = "cancel"
    /\ fctx' = CancelCtx(fctx)
    /\ pcD' = IF fctx = "active" THEN Wake(pcD) ELSE pcD
    /\ pcM' = "wait"
    /\ UNCHANGED <<reach, spawned, dialed, open, deadlinePassed, response,
                   handoffs, wg>>

\* wg.Wait() returns; ctx.Err() and response are examined from here on
CoordJoin ==
    /\ UNCHANGED <<varsC, varsP, varsS>>
    /\ pcM = "wait"
    /\ WaitDone(wg)
    /\ pcM' = "returned"
    /\ UNCHANGED <<reach, spawned, pcD, dialed, open, fctx, deadlinePassed,
                   response, handoffs, wg>>

\* the deferred cancel() of line 74
DeferCancel ==
    /\ UNCHANGED <<varsC, varsP, varsS>>
    /\ pcM = "returned"
    /\ fctx' = CancelCtx(fctx)
    /\ pcD' = IF fctx = "active" THEN Wake(pcD) ELSE pcD
    /\ pcM' = "exited"
    /\ UNCHANGED <<reach, spawned, dialed, open, deadlinePassed, response,
                   handoffs, wg>>

\* the deadline of context.WithDeadline passes, before or after a cancel()
DeadlineExpires ==
    /\ UNCHANGED <<varsC, varsP, varsS>>
    /\ pcM \notin {"listen", "exited"}
    /\ ~deadlinePassed
    /\ deadlinePassed' = TRUE
    /\ fctx' = ExpireCtx(fctx)
    /\ pcD' = IF fctx = "active" THEN Wake(pcD) ELSE pcD
    /\ pcM' = IF fctx = "active" THEN WakeCoord(pcM) ELSE pcM
    /\ UNCHANGED <<reach, spawned, dialed, open, response, handoffs, wg>>

DialerStep(i) ==
    \/ DialOK(i) \/ DialFail(i) \/ CloseConn(i)
    \/ PublishSkip(i) \/ Publish(i) \/ Park(i)

CoordStep ==
    \/ \E R \in SUBSET Dialers : Listen(R)
    \/ Spawn \/ SpawnDone \/ CoordCtxDone \/ CoordPark \/ CoordCancel
    \/ CoordJoin \/ DeferCancel
    \/ \E i \in Dialers : Publish(i) \/ Receive(i)

NextF ==
    \/ pcM = "listen" /\ \E R \in SUBSET Dialers : Listen(R)
    \/ Spawn
    \/ SpawnDone
    \/ \E i \in Dialers : DialOK(i)
    \/ \E i \in Dialers : DialFail(i)
    \/ \E i \in Dialers : CloseConn(i)
    \/ \E i \in Dialers : PublishSkip(i)
    \/ \E i \in Dialers : Publish(i)
    \/ \E i \in Dialers : Park(i)
    \/ CoordCtxDone
    \/ \E i \in Dialers : Receive(i)
    \/ CoordPark
    \/ CoordCancel
    \/ CoordJoin
    \/ DeferCancel
    \/ DeadlineExpires

(***************************************************************************)
(*                 SERVER WITH HEARTBEAT AND DEADLINE                      *)
(***************************************************************************)

\* Length (in seconds) of the scenarios.
MaxTime == 12

\* resetTimer <- time.Second (part_004:63), in seconds
PingEvery == 1

\* conn.SetDeadline(time.Now().Add(5 * time.Second)), in seconds
ReadDeadline == 5

\* for i := 0; i < 4; i++ { conn.Read(buf) } (part_004:133)
PingsBeforePong == 4

\* conn.SetDeadline(t + 5s)
SetDeadlineOnce(t) == ReadDeadline
SetDeadline(t) == t + ReadDeadline

\* The deadline of the conn after a Write on it: Write leaves it alone.
AfterWriteExtends(dl, t) == t + ReadDeadline
AfterWrite(dl, t) == dl

\* A Read or Write on the conn fails once its deadline has passed.
Expired(dl, t) == dl # 0 /\ t >= dl

InitS ==
    /\ pcS = "listen"
    /\ now = 0
    /\ connDeadline = 0
    /\ inbound = 0
    /\ pongAfter = 0
    /\ pingsSeen = 0
    /\ pongSent = FALSE
    /\ lastInbound = -1
    /\ doneAt = -1

\* net.Dial of the client (line 121), which will read n pings before it
\* writes
ClientDial(n) ==
    /\ UNCHANGED <<varsC, varsP, varsF>>
    /\ pcS = "listen"
    /\ pongAfter' = n
    /\ pcS' = "accept"
    /\ UNCHANGED <<now, connDeadline, inbound, pingsSeen, pongSent, lastInbound,
                   doneAt>>

\* listener.Accept, context.WithCancel, resetTimer <- time.Second,
\* go Pinger(ctx, conn, resetTimer) (lines 45-64)
Accept ==
    /\ UNCHANGED <<varsC, varsF>>
    /\ pcS = "accept"
    /\ resetCh' = Append(resetCh, PingEvery)
    /\ pcS' = "setdl"
    /\ UNCHANGED <<pc, ctxDone, interval, newInterval, timerOn, timerLeft,
                   timerC, syncTimer, acted, exit, sinceReset, startCanceled>>
    /\ UNCHANGED <<now, connDeadline, inbound, pongAfter, pingsSeen, pongSent,
                   lastInbound, doneAt>>

\* conn.SetDeadline (lines 68 and 111)
ServerSetDeadline ==
    /\ UNCHANGED <<varsC, varsP, varsF>>
    /\ pcS = "setdl"
    /\ connDeadline' = SetDeadline(now)
    /\ pcS' = "read"
    /\ UNCHANGED <<now, inbound, pongAfter, pingsSeen, pongSent, lastInbound,
                   doneAt>>

\* conn.Read returns data (line 92)
ServerRead ==
    /\ UNCHANGED <<varsC, varsP, varsF>>
    /\ pcS = "read"
    /\ ~Expired(connDeadline, now)
    /\ inbound > 0
    /\ inbound' = inbound - 1
    /\ lastInbound' = now
    /\ pcS' = "reset"
    /\ UNCHANGED <<now, connDeadline, pongAfter, pingsSeen, pongSent, doneAt>>

\* conn.Read returns the deadline error: return (lines 93-95)
ServerTimeout ==
    /\ UNCHANGED <<varsC, varsP, varsF>>
    /\ pcS = "read"
    /\ Expired(connDeadline, now)
    /\ pcS' = "closing"
    /\ UNCHANGED <<now, connDeadline, inbound, pongAfter, pingsSeen, pongSent,
                   lastInbound, doneAt>>

\* resetTimer <- 0 (line 106): blocks while the channel holds a value
ServerReset ==
    /\ UNCHANGED <<varsC, varsF>>
    /\ pcS = "reset"
    /\ Len(resetCh) < 1
    /\ resetCh' = Append(resetCh, 0)
    /\ pcS' = "setdl"
    /\ UNCHANGED <<pc, ctxDone, interval, newInterval, timerOn, timerLeft,
                   timerC, syncTimer, acted, exit, sinceReset, startCanceled>>
    /\ UNCHANGED <<now, connDeadline, inbound, pongAfter, pingsSeen, pongSent,
                   lastInbound, doneAt>>

\* the deferred functions: cancel(), conn.Close(), close(done)
ServerClose ==
    /\ UNCHANGED <<varsC, varsF>>
    /\ pcS = "closing"
    /\ ctxDone' = TRUE
    /\ doneAt' = now
    /\ pcS' = "done"
    /\ UNCHANGED <<pc, resetCh, interval, newInterval, timerOn, timerLeft,
                   timerC, syncTimer, acted, exit, sinceReset, startCanceled>>
    /\ UNCHANGED <<now, connDeadline, inbound, pongAfter, pingsSeen, pongSent,
                   lastInbound>>

\* Pinger's w.Write([]byte("ping")) on the conn succeeds; the client reads
\* the ping (lines 133-139)
ConnWriteOK ==
    /\ UNCHANGED <<varsC, varsF>>
    /\ pc = "write"
    /\ pcS # "done"
    /\ ~Expired(connDeadline, now)
    /\ pc' = "rearm"
    /\ connDeadline' = AfterWrite(connDeadline, now)
    /\ pingsSeen' = IF pingsSeen < pongAfter THEN pingsSeen + 1 ELSE pingsSeen
    /\ UNCHANGED <<ctxDone, resetCh, interval, newInterval, timerOn, timerLeft,
                   timerC, syncTimer, acted, exit, sinceReset, startCanceled>>
    /\ UNCHANGED <<pcS, now, inbound, pongAfter, pongSent, lastInbound, doneAt>>

\* Pinger's w.Write fails: the conn is closed or its deadline has passed
ConnWriteFail ==
    /\ UNCHANGED <<varsC, varsF>>
    /\ pc = "write"
    /\ pcS = "done" \/ Expired(connDeadline, now)
    /\ exit' = "writeErr"
    /\ pc' = "defer"
    /\ UNCHANGED <<ctxDone, resetCh, interval, newInterval, timerOn, timerLeft,
                   timerC, syncTimer, acted, sinceReset, startCanceled>>
    /\ UNCHANGED varsS

\* conn.Write([]byte("PONG!!!")) of the client (line 147)
ClientPong ==
    /\ UNCHANGED <<varsC, varsP, varsF>>
    /\ pcS \notin {"listen", "accept", "done"}
    /\ ~pongSent
    /\ pingsSeen = pongAfter
    /\ pongSent' = TRUE
    /\ inbound' = inbound + 1
    /\ UNCHANGED <<pcS, now, connDeadline, pongAfter, pingsSeen, lastInbound,
                   doneAt>>

\* The steps Pinger takes in this server: its first select finds the value
\* of line 63, and a reset never finds an undelivered fire.
ServerPingerStep ==
    /\ pcS \notin {"listen", "accept"}
    /\ \/ StartRecv
       \/ SelectCancel
       \/ SelectReset
       \/ SelectTimer
       \/ Rearm
       \/ DeferStop
       \/ DeferDrain
       \/ TimerFire

\* Everything that happens without time passing.
Instant ==
    \/ \E n \in 1..PingsBeforePong : ClientDial(n)
    \/ Accept
    \/ ServerSetDeadline
    \/ ServerRead
    \/ ServerTimeout
    \/ ServerReset
    \/ ServerClose
    \/ ConnWriteOK
    \/ ConnWriteFail
    \/ ClientPong
    \/ ServerPingerStep

\* One second passes, when nothing is left to do in the current one: the
\* steps of the goroutines take no time at the granularity of
\* time.Since(begin).Truncate(time.Second).
TickS ==
    /\ UNCHANGED <<varsC, varsF>>
    /\ now < MaxTime
    /\ ~ENABLED Instant
    /\ now' = now + 1
    /\ timerLeft' = IF timerOn THEN timerLeft - 1 ELSE timerLeft
    /\ sinceReset' = IF acted = "reset" /\ sinceReset < defaultPingInterval
                     THEN sinceReset + 1 ELSE sinceReset
    /\ UNCHANGED startCanceled
    /\ UNCHANGED <<pc, ctxDone, resetCh, interval, newInterval, timerOn, timerC,
                   syncTimer, acted, exit>>
    /\ UNCHANGED <<pcS, connDeadline, inbound, pongAfter, pingsSeen, pongSent,
                   lastInbound, doneAt>>

NextS ==
    \/ \E n \in 1..PingsBeforePong : ClientDial(n)
    \/ Accept
    \/ ServerSetDeadline
    \/ ServerRead
    \/ ServerTimeout
    \/ ServerReset
    \/ ServerClose
    \/ ConnWriteOK
    \/ ConnWriteFail
    \/ ClientPong
    \/ ServerPingerStep
    \/ TickS

(***************************************************************************)
(*                          SPECIFICATIONS                                 *)
(***************************************************************************)

\* Every mechanism as constructed.
Init == InitC /\ InitP /\ InitF /\ InitS

\* The codec alone.
CodecSpec == Init /\ [][NextC]_vars

\* Several values on one connection.
FramingSpec == Init /\ [][NextFr]_vars

\* The heartbeat alone.
PingerSpec == Init /\ [][NextP]_vars

\* The heartbeat under the scheduling Go gives: a goroutine that can run
\* does run, the runtime delivers an expired timer, and a select whose
\* ctx.Done() case is ready again and again eventually picks it (the choice
\* among ready cases is uniformly random).  Nothing obliges the writer to
\* finish a Write, nor the callers to cancel or to send.
PingerFairSpec ==
    /\ Init
    /\ [][NextP]_vars
    /\ WF_vars(PingerStep)
    /\ WF_vars(TimerFire)
    /\ SF_vars(SelectCancel)

\* The heartbeat with time that does not stand still: besides the scheduling
\* of PingerFairSpec, a second that can pass does pass, and a select whose
\* reset case is ready again and again eventually picks it.
PingerLiveSpec ==
    /\ Init
    /\ [][NextP]_vars
    /\ WF_vars(PingerStep)
    /\ WF_vars(TimerFire)
    /\ WF_vars(Tick)
    /\ SF_vars(SelectCancel)
    /\ SF_vars(SelectReset)

\* The fan-out connector alone.
FanoutSpec == Init /\ [][NextF]_vars

\* The server of TestPingerAdvanceDeadline with its Pinger and its client.
ServerSpec == Init /\ [][NextS]_vars

\* The fan-out connector under the scheduling Go gives: every goroutine that
\* can take a step does so, and the runtime ends the context when its
\* deadline passes.
FanoutFairSpec ==
    /\ Init
    /\ [][NextF]_vars
    /\ WF_vars(CoordStep)
    /\ \A i \in Dialers : WF_vars(DialerStep(i))
    /\ WF_vars(DeadlineExpires)

(***************************************************************************)
(*                        CLAIMS: FRAMING CODEC                            *)
(***************************************************************************)

\* WriteTo has returned.
Written == werr # "none"

\* The stream ReadFrom read is the one a complete WriteTo of value produced.
RoundTrip == pcC = "decoded" /\ werr = "nil" /\ stream = sink

\* C1: round trip -- encoding Binary(b) with WriteTo into a byte stream and
\* decoding that stream with ReadFrom succeeds and yields a value equal to b.
C1_RoundTrip ==
    RoundTrip => /\ rerr = "nil"
                 /\ m.size = value.size
                 /\ Bytes(m) = Bytes(value)

\* The stream starts with a complete header whose tag is the Binary tag and
\* whose length field is above MaxPayloadSize.
OversizeHeader ==
    /\ Len(stream) >= 5
    /\ stream[1] = 1
    /\ stream[2] * 16777216 + stream[3] * 65536 + stream[4] * 256 + stream[5]
         > 10485760

\* C2: ReadFrom on a matching tag and a length field above MaxPayloadSize
\* returns (5, ErrMaxPayloadSize), allocates no value buffer (the receiver
\* is still the one it was called on) and reads nothing past the header.
C2_OversizeRejected ==
    (pcC = "decoded" /\ OversizeHeader) =>
        /\ rn = 5
        /\ rerr = "ErrMaxPayloadSize"
        /\ ~made
        /\ m \in Receivers
        /\ pos = 5

\* An oversize header followed by more bytes has been decoded and rejected.
C2_Witness ==
    /\ pcC = "decoded"
    /\ OversizeHeader
    /\ Len(stream) > 5
    /\ rerr = "ErrMaxPayloadSize"
    /\ pos = 5

\* C3: ReadFrom on a stream whose first byte is not the Binary tag returns
\* (1, invalid type) and has consumed exactly one byte, whatever follows.
C3_WrongTagRejected ==
    (pcC = "decoded" /\ Len(stream) >= 1 /\ stream[1] # 1) =>
        /\ rn = 1
        /\ rerr = "invalid Binary"
        /\ pos = 1
        /\ ~made
        /\ m \in Receivers

\* A StringType envelope with a header and a value was offered and rejected.
C3_Witness ==
    /\ pcC = "decoded"
    /\ Len(stream) > 5
    /\ stream[1] = 2
    /\ rerr = "invalid Binary"
    /\ pos = 1

\* C4: into a sink that accepts every write, WriteTo emits exactly the tag
\* 0x01, len(b) as four big-endian bytes and b, and returns (5 + len(b), nil).
C4_EncodeLayout ==
    (Written /\ sinkCap >= 5 + value.size) =>
        /\ werr = "nil"
        /\ wn = 5 + value.size
        /\ Len(sink) = 5 + value.size
        /\ sink[1] = 1
        /\ \A i \in 2..5 : sink[i] \in 0..255
        /\ sink[2] * 16777216 + sink[3] * 65536 + sink[4] * 256 + sink[5]
             = value.size
        /\ SubSeq(sink, 6, Len(sink)) = Bytes(value)

\* Binary([1,2,3]) was encoded as [1, 0,0,0,3, 1,2,3].
C4_Witness ==
    /\ Written
    /\ value = Bin(<<1, 2, 3>>)
    /\ sink = <<1, 0, 0, 0, 3, 1, 2, 3>>
    /\ wn = 8
    /\ werr = "nil"

\* C5: for every sink behaviour the count WriteTo returns is the number of
\* bytes the sink accepted from the call.
C5_WriteCountExact == Written => wn = Len(sink)

\* C6: for every source behaviour the count ReadFrom returns is the number
\* of bytes it consumed from the source.
C6_ReadCountExact == pcC = "decoded" => rn = pos

(***************************************************************************)
(*                          CLAIMS: HEARTBEAT                              *)
(***************************************************************************)

\* A call of w.Write([]byte("ping")) begins in this step.
WriteBegins == pc # "write" /\ pc' = "write"

\* C7: once the context is canceled no write of "ping" begins, also when
\* the timer fire and the cancellation are both ready at the same select.
C7_NoProbeAfterCancel == [][ctxDone => ~WriteBegins]_vars

\* C8: after the context is canceled Pinger eventually returns, from every
\* state it can be in at that moment.
C8_CancelLeadsToClosed == ctxDone ~> (pc = "closed")

\* C9: after a failed probe write Pinger returns: it does not write again,
\* does not rearm the timer, and its deferred timer cleanup does not block
\* (when it waits on timer.C there is a value to receive).
C9_WriteFailureTerminates ==
    exit = "writeErr" =>
        /\ pc \in {"defer", "deferDrain", "closed"}
        /\ ~timerOn
        /\ (pc = "deferDrain" => timerC = 1)

\* Pinger receives from the reset channel in the select of its loop.
ResetTaken == pc = "select" /\ Len(resetCh') < Len(resetCh)

\* C10: a value v received on reset while Armed becomes the interval when
\* v > 0 and leaves the interval unchanged when v <= 0; the timer is then
\* rearmed for that interval and Pinger is back at its select, without a
\* write in that iteration.
C10_ResetAdoptsInterval ==
    [][ /\ ResetTaken =>
              /\ newInterval' = Head(resetCh)
              /\ acted' = "reset"
              /\ pc' \in {"drain", "rearm"}
              /\ ~timerOn'
        /\ (acted' = "reset" /\ pc # "rearm" /\ pc' = "rearm") =>
              interval' = IF newInterval' > 0 THEN newInterval' ELSE interval
        /\ (acted = "reset" /\ pc = "drain") => pc' \in {"drain", "rearm"}
        /\ (acted = "reset" /\ pc = "rearm") =>
              /\ interval' = interval
              /\ pc' \in {"rearm", "select"}
              /\ pc' = "select" =>
                    (timerOn' /\ timerLeft' = interval /\ timerC' = 0)
      ]_vars

\* A reset of 0 or less was consumed while the interval was 1: the interval
\* is still 1 and the timer is armed for a full second.
C10_Witness ==
    /\ pc = "select"
    /\ acted = "reset"
    /\ newInterval <= 0
    /\ interval = 1
    /\ timerOn
    /\ timerLeft = 1
    /\ timerC = 0

\* C11: once Pinger has consumed a reset (zero and negative values included),
\* the next probe is not written earlier than one full current interval after
\* that reset: a Write that begins while the reset is the last case acted
\* upon begins when at least `interval` seconds have passed since the reset.
C11_FullIntervalAfterReset ==
    [][(WriteBegins /\ acted = "reset") => sinceReset >= interval]_vars

\* A reset that carried no new interval was consumed and the timer has fired
\* exactly one current interval later.
C11_Witness ==
    /\ pc = "select"
    /\ acted = "reset"
    /\ newInterval <= 0
    /\ timerC = 1
    /\ interval > 0
    /\ sinceReset = interval

\* C12: when a reset is acted upon while a fire is pending in timer.C, the
\* fire is drained before the timer is rearmed, so it cannot cause a probe,
\* and the drain never blocks: Pinger waits at line 129 only with a value in
\* timer.C, and reaches timer.Reset after a reset with timer.C empty and the
\* timer stopped.
C12_PendingFireDrained ==
    /\ (pc = "drain" => timerC = 1 /\ ~timerOn)
    /\ ((pc = "rearm" /\ acted = "reset") => timerC = 0 /\ ~timerOn)

\* The reset was acted upon with a fire pending, and the fire has been drained.
C12_Witness == pc = "drain" /\ timerC = 1 /\ acted = "reset"

\* C13: while the context is not canceled, no reset arrives and every write
\* succeeds, Pinger keeps emitting probes forever, and after each successful
\* write the timer is rearmed for the current interval.
C13_RearmedAfterWrite ==
    [][(pc = "rearm" /\ acted = "fire" /\ pc' = "select")
         => (timerOn' /\ timerLeft' = interval /\ timerC' = 0)]_vars

C13_ProbesForever ==
    /\ C13_RearmedAfterWrite
    /\ (/\ <>[](~ctxDone /\ resetCh = <<>> /\ exit = "none")
        /\ []<>(pc # "write"))
          => []<>(pc = "write")

\* A probe was written and the timer runs again for the whole interval.
C13_Witness ==
    /\ pc = "select"
    /\ acted = "fire"
    /\ timerOn
    /\ timerLeft = interval
    /\ ~ctxDone
    /\ exit = "none"

\* C14: the start of Pinger pulls once from the reset channel without
\* blocking: a positive value waiting there becomes the interval, nothing
\* waiting or a value <= 0 gives the 30 second default, and Pinger never waits
\* at the start for a value to arrive.
C14_StartStep ==
    (pc = "start" /\ pc' # "start") =>
        \/ ctxDone /\ pc' = "closed"
        \/ /\ pc' = "select"
           /\ interval' = IF resetCh # <<>> /\ Head(resetCh) > 0
                           THEN Head(resetCh) ELSE defaultPingInterval
           /\ timerOn'
           /\ timerLeft' = interval'
           /\ timerC' = 0

C14_InitialInterval ==
    /\ [][C14_StartStep]_vars
    /\ [](pc = "start" => ENABLED (StartCancel \/ StartRecv \/ StartDefault))

\* Pinger started with nothing usable waiting and runs with the default.
C14_Witness ==
    /\ pc = "select"
    /\ acted = "none"
    /\ interval = defaultPingInterval
    /\ timerOn
    /\ timerLeft = defaultPingInterval

\* C26: in each iteration of the loop exactly one of cancellation, reset and
\* timer fire is acted upon, and a probe is written only in an iteration that
\* consumed a timer fire: a write begins only by taking a value from timer.C,
\* and while Pinger handles a reset or a cancellation it does not write.
C26_OneCasePerIteration ==
    /\ [](pc = "write" => acted = "fire")
    /\ [](pc = "drain" => acted = "reset")
    /\ [](pc = "rearm" => acted \in {"reset", "fire"})
    /\ []((pc \in {"defer", "deferDrain"} /\ exit = "cancel") => acted = "cancel")
    /\ [][WriteBegins => (pc = "select" /\ timerC = 1 /\ timerC' = 0)]_vars

\* A reset was acted upon with the buffered timer channel: the timer is
\* stopped, timer.C is empty and Pinger goes on to rearm, not to write.
C26_Witness ==
    /\ pc = "rearm"
    /\ acted = "reset"
    /\ timerC = 0
    /\ ~timerOn
    /\ ~syncTimer
    /\ sinceReset = 0

\* C27: timer.C holds at most one fire, an armed timer never coexists with
\* an undelivered fire, the timer is rearmed only with timer.C empty, and
\* when Pinger has returned the timer is stopped with nothing left in
\* timer.C.
C27_AtMostOneFire ==
    /\ timerC \in {0, 1}
    /\ (timerOn => timerC = 0)
    /\ (pc \in {"write", "rearm"} => (~timerOn /\ timerC = 0))
    /\ (pc = "closed" => (~timerOn /\ timerC = 0))

\* Pinger returned upon a cancellation after the timer had been armed.
C27_Witness ==
    /\ pc = "closed"
    /\ acted = "cancel"
    /\ interval > 0
    /\ ~timerOn
    /\ timerC = 0

\* The timer has been created (the start did not return on a canceled
\* context).
Armed == pc # "start" /\ ~(pc = "closed" /\ acted = "none")

\* C28: from the first arming of the timer on, the interval is strictly
\* positive, whatever values arrive at the start and on the reset channel.
C28_IntervalPositive == Armed => interval > 0

\* A negative reset was consumed and the interval is still positive.
C28_Witness ==
    /\ pc = "select"
    /\ acted = "reset"
    /\ newInterval < 0
    /\ timerOn
    /\ interval > 0

\* The header WriteTo writes for value.
Header == <<BinaryType>> \o PutUint32(value.size)

ExpectedEnd == 9

LengthField == Uint32(SubSeq(sink, 2, 5))

\* C31: every envelope WriteTo emits has a length field that equals the
\* number of bytes of the value and is at most MaxPayloadSize, so that
\* ReadFrom, given what WriteTo emitted, does not reject it for its size.
C31_EnvelopeInvariant ==
    /\ (Written /\ Len(sink) >= 5) =>
          (LengthField = value.size /\ LengthField <= MaxPayloadSize)
    /\ (pcC = "decoded" /\ Written /\ stream = sink) =>
          rerr # "ErrMaxPayloadSize"

\* C32: ReadFrom fills the value buffer completely -- when it returns a nil
\* error it has consumed 5 + length bytes of the stream and the buffer holds
\* all length bytes of the value, however the source splits its reads.
C32_ValueFilled ==
    (pcC = "decoded" /\ rerr = "nil") =>
        /\ rn = 5 + m.size
        /\ pos = 5 + m.size
        /\ Len(m.data) = m.size

\* Where the i-th envelope's tag byte lies in the stream.
RECURSIVE StartOf(_)
StartOf(i) == IF i = 1 THEN 0 ELSE StartOf(i - 1) + 5 + Len(sent[i - 1])

\* C33: framing is preserved across messages -- when the values of sent are
\* encoded back to back into one stream, the i-th ReadFrom on that stream
\* starts at the i-th envelope's tag byte, succeeds and yields the i-th
\* value, however the source splits the stream into reads.
C33_FramingPreserved ==
    \A i \in 1..Len(got) :
        /\ got[i].at = StartOf(i)
        /\ got[i].err = "nil"
        /\ got[i].m.size = Len(sent[i])
        /\ Bytes(got[i].m) = sent[i]

\* The stream starts with a header ReadFrom accepts: a Binary tag and four
\* length bytes that declare at most MaxPayloadSize.
HeaderAccepted ==
    /\ Len(stream) >= 5
    /\ ~InvalidType(stream[1])
    /\ ~ExceedsMax(Uint32(SubSeq(stream, 2, 5)))

\* C34: a ReadFrom that fails before the value read (tag unreadable, tag
\* mismatch, length unreadable, length above MaxPayloadSize) leaves the
\* receiver's previous buffer as it was; the buffer is replaced only once
\* the header has been accepted.
C34_HeaderFailureKeepsBuffer ==
    [][(pcC = "ready" /\ pcC' = "decoded") =>
          /\ ~HeaderAccepted => (m' = m /\ ~made' /\ rerr' # "nil")
          /\ (rerr' # "nil" /\ (rn' < 5 \/ rerr' = "ErrMaxPayloadSize"))
                => m' = m
          /\ made' <=> HeaderAccepted
          /\ m' # m => HeaderAccepted]_vars

\* A receiver that held a value still holds it after an oversized header.
C34_Witness ==
    /\ pcC = "decoded"
    /\ rerr = "ErrMaxPayloadSize"
    /\ m = Bin(<<MaxByte>>)
    /\ ~made

\* C35: if the context is already canceled when Pinger starts, Pinger never
\* writes a probe, in every interleaving, a reset value waiting on the
\* channel at the start included.
C35_CanceledAtStartNoProbe == [][startCanceled => ~WriteBegins]_vars

\* Pinger is in its loop: waiting at the select, writing a probe, or on its
\* way back to the select.
InLoop == pc \in {"select", "drain", "write", "rearm"}

\* A reset value placed on the channel while Pinger is in its loop is
\* received by Pinger, unless the context is canceled first.
ResetConsumed == (InLoop /\ resetCh # <<>>) ~> (resetCh = <<>> \/ ctxDone)

Returned == pcM \in {"returned", "exited"}

\* C15: the coordinator receives at most one identity, however many attempts
\* connect: at most one value ever passes through res.
C15_AtMostOneIdentity == handoffs <= 1

\* Two attempts connected and one identity was received.
C15_Witness == Returned /\ handoffs = 1 /\ Cardinality(dialed) >= 2

\* C16: once the coordinator is past wg.Wait(), every attempt it started has
\* finished.
C16_AllFinishedAfterWait ==
    Returned => (spawned = NumDialers /\ \A i \in Dialers : pcD[i] = "done")

\* The coordinator is past the wait after attempts that connected.
C16_Witness == pcM = "returned" /\ dialed # {} /\ wg = 0

\* C17: the fan-out always completes, and no attempt stays blocked forever on
\* the unbuffered handoff: eventually the coordinator has got past wg.Wait()
\* and left, with every attempt finished.
C17_AlwaysCompletes ==
    <>(pcM = "exited" /\ \A i \in Dialers : pcD[i] = "done")

\* The fan-out completed although an attempt that had connected was not the
\* one whose identity was received.
C17_Witness == pcM = "exited" /\ \E i \in dialed : response # i

\* C18: if exactly one attempt can connect, and connects before the deadline,
\* the coordinator has received that attempt's identity and the context ended
\* by the explicit cancel.
C18_SoleWinner ==
    \A k \in Dialers :
        (pcM = "returned" /\ reach = {k} /\ dialed = {k})
            => (response = k /\ fctx = "canceled")

\* C19: if no attempt can connect, the coordinator does not get past its
\* select before the deadline, and it completes with deadline-exceeded and
\* response 0.
C19_NoAnswer ==
    (reach = {} /\ pcM \in {"cancel", "wait", "returned", "exited"})
        => (fctx = "deadline" /\ response = 0 /\ handoffs = 0)

\* Nothing could connect and the coordinator is past wg.Wait().
C19_Witness ==
    /\ pcM = "returned"
    /\ reach = {}
    /\ fctx = "deadline"
    /\ \A i \in Dialers : pcD[i] = "done"

\* C20: after the fan-out returns the context ended by the explicit cancel
\* exactly when a winner was received, and by the deadline exactly when none
\* was.
C20_ReasonMatchesOutcome ==
    pcM = "returned" =>
        /\ (fctx = "canceled") <=> (handoffs = 1)
        /\ (fctx = "deadline") <=> (handoffs = 0)

\* Attempt i leaves its dial without a connection.
DialFailed(i) == pcD[i] = "dial" /\ pcD'[i] # "dial" /\ i \notin dialed'

\* The context ends on this step.
ScopeEnds == fctx = "active" /\ fctx' # "active"

\* C21: a failed dial attempt does not end the fan-out: the step on which an
\* attempt fails leaves the shared context, response and the handoff alone,
\* an identity that was delivered is always that of an attempt that
\* connected, and the context ends only on a cancel() of the coordinator or
\* when the deadline passes.
C21_FailedDialNotFatal ==
    /\ [](response # 0 => response \in dialed)
    /\ [][\A i \in Dialers :
            DialFailed(i) => /\ fctx' = fctx
                             /\ response' = response
                             /\ handoffs' = handoffs]_vars
    /\ [][ScopeEnds =>
            \/ pcM \in {"cancel", "returned"} /\ fctx' = "canceled"
            \/ ~deadlinePassed /\ deadlinePassed' /\ fctx' = "deadline"]_vars

\* An attempt failed, and another one connected and was delivered as the
\* winner with the explicit cancel as the end of the context.
C21_Witness ==
    /\ pcM = "returned"
    /\ response \in dialed
    /\ fctx = "canceled"
    /\ \E i \in Dialers : i \notin reach /\ pcD[i] = "done"

\* C22: when the fan-out returns, every connection an attempt opened and
\* that did not win has been closed.
C22_LosersClosed ==
    Returned => \A i \in dialed : i # response => i \notin open

\* Two attempts had connected when the fan-out returned.
C22_Witness ==
    /\ pcM = "returned"
    /\ open = {}
    /\ \E i, j \in dialed : i # j /\ response # i

\* C23: an attempt that connected never publishes its identity once the
\* context is done at the time it would publish: an identity passes through
\* res only while the context is active.
C23_NoPublishAfterDone ==
    [][handoffs' # handoffs => fctx = "active"]_vars

\* Attempts connected, found the context ended by the deadline and finished
\* without publishing.
C23_Witness ==
    /\ fctx = "deadline"
    /\ handoffs = 0
    /\ dialed # {}
    /\ \A i \in dialed : pcD[i] = "done"

\* C24: the context is monotonic: once done its reason never changes, so a
\* cancel() after the deadline and a deadline after a cancel() are no-ops.
C24_ScopeMonotonic ==
    [][fctx # "active" => fctx' = fctx]_vars

\* cancel() of line 206 ran after the deadline had ended the context.
C24_Witness == pcM = "wait" /\ handoffs = 1 /\ fctx = "deadline"

\* C37: an identity the coordinator receives is that of one of the attempts
\* 1..N whose dial succeeded while the context was not yet done; an attempt
\* whose dial failed, or was aborted when the context ended, never gets to
\* the select that publishes.
C37_OnlyConnectedPublish ==
    /\ [](handoffs > 0 => (response \in Dialers /\ response \in reach))
    /\ [](\A i \in Dialers :
            pcD[i] \in {"close", "publish", "parked", "woken"} => i \in dialed)
    /\ [][\A i \in Dialers :
            (i \in dialed' /\ i \notin dialed)
               => (fctx = "active" /\ i \in reach)]_vars
    /\ [][handoffs' # handoffs =>
            (response' \in dialed /\ pcD[response'] \in {"publish", "parked"})]_vars

\* An identity was received, and an attempt that could have connected was
\* aborted by the end of the context and returned without publishing.
C37_Witness ==
    /\ response # 0
    /\ \E i \in reach : i \notin dialed /\ pcD[i] = "done"

====
